---- MODULE Spec2Model ----
(***************************************************************************)
(* Model of api/index.py: the Spotify download/search proxy.               *)
(*                                                                         *)
(* Python strings that the code inspects (URLs, identifiers, formatted     *)
(* durations, percent-encoded links) are sequences of one-character        *)
(* strings, so that the regular expressions, urllib.parse.quote and the    *)
(* f-string number formatting are computed character by character.         *)
(* One request is followed from its entry point through every await (an   *)
(* outbound HTTP call whose outcome the environment chooses) up to the     *)
(* response FastAPI sends.                                                 *)
(***************************************************************************)
EXTENDS Integers, Sequences, FiniteSets, TLC

VARIABLES
    pc,          \* position of the request / of the function under test
    op,          \* "none" | "download" | "search"
    url,         \* the url argument (character sequence)
    q,           \* the q argument of search
    steps,       \* the pipeline steps performed so far, in order
    calls,       \* the outbound HTTP calls issued so far, in order
    validated_url, \* process_download's local validated_url
    track_id,    \* process_download's local track_id
    track_data,  \* result of get_track_metadata, once it returned
    check_result, \* process_download's local check_result
    failure,     \* where the request failed and with which exception class
    response,    \* the HTTP response: [code, body]
    ms,          \* duration_ms under test (duration specification)
    out          \* result of the function under test (function specifications)

vars == <<pc, op, url, q, steps, calls, validated_url, track_id, track_data,
          check_result, failure, response, ms, out>>

----------------------------------------------------------------------------
(* Bounds *)

\* inputs are concatenations of at most MaxSegs segments
MaxSegs == 4
\* a search reply holds at most MaxItems items
MaxItems == 2
\* durations under test range over multiples up to MaxDurK
MaxDurK == 90

(* Program constants *)

\* {22} in both regular expressions of extract_track_id
IdLen == 22
\* duration_ms // 60000, duration_ms % 60000
MsPerMinute == 60000
\* ... // 1000
MsPerSecond == 1000

API_OWNER == "Stellar"
API_UPDATES == "@ApexServers"

----------------------------------------------------------------------------
(* Characters and strings *)

Lower == {"a", "b", "c", "d", "e", "f", "g", "h", "i", "j", "k", "l", "m",
          "n", "o", "p", "q", "r", "s", "t", "u", "v", "w", "x", "y", "z"}
Upper == {"A", "B", "C", "D", "E", "F", "G", "H", "I", "J", "K", "L", "M",
          "N", "O", "P", "Q", "R", "S", "T", "U", "V", "W", "X", "Y", "Z"}
Digit == {"0", "1", "2", "3", "4", "5", "6", "7", "8", "9"}

\* the character class [a-zA-Z0-9]
Alnum == Lower \cup Upper \cup Digit

\* "https://open.spotify.com/track/" : the literal part of the validation regex
UrlPrefix == <<"h", "t", "t", "p", "s", ":", "/", "/", "o", "p", "e", "n", ".",
               "s", "p", "o", "t", "i", "f", "y", ".", "c", "o", "m", "/",
               "t", "r", "a", "c", "k", "/">>

\* "spotify.com/track/" : the literal part of the extraction regex
TrackMarker == <<"s", "p", "o", "t", "i", "f", "y", ".", "c", "o", "m", "/",
                 "t", "r", "a", "c", "k", "/">>

AllAlnum(s, from, to) == \A i \in from..to : s[i] \in Alnum

StartsWith(s, p) == Len(s) >= Len(p) /\ SubSeq(s, 1, Len(p)) = p

\* results of the two validators: a value, or the ValueError raised
Ok(v) == [ok |-> TRUE, val |-> v, msg |-> "", step |-> "none"]
Raise(step, m) == [ok |-> FALSE, val |-> <<>>, msg |-> m, step |-> step]

----------------------------------------------------------------------------
(* validate_spotify_url *)

\* mutant: the pre-check demands a whole identifier after the prefix
MatchTrackUrlStrict(u) ==
    /\ StartsWith(u, UrlPrefix)
    /\ Len(u) >= Len(UrlPrefix) + IdLen
    /\ AllAlnum(u, Len(UrlPrefix) + 1, Len(UrlPrefix) + IdLen)

\* re.match(r"^https://open\.spotify\.com/track/[a-zA-Z0-9]+", url)
MatchTrackUrl(u) ==
    /\ StartsWith(u, UrlPrefix)
    /\ Len(u) > Len(UrlPrefix)
    /\ u[Len(UrlPrefix) + 1] \in Alnum

validate_spotify_url(u) ==
    IF u = <<>> \/ ~MatchTrackUrl(u)
    THEN Raise("validate", "Valid Spotify track URL required")
    ELSE Ok(u)

----------------------------------------------------------------------------
(* extract_track_id *)

\* re.match(r"^[a-zA-Z0-9]{22}$", url): Python's $ matches at the end of the
\* string and also just before a newline that ends the string
MatchBareId(u) ==
    /\ Len(u) >= IdLen
    /\ AllAlnum(u, 1, IdLen)
    /\ \/ Len(u) = IdLen
       \/ Len(u) = IdLen + 1 /\ u[IdLen + 1] = "\n"

\* the positions where r"spotify\.com/track/([a-zA-Z0-9]{22})" matches
MarkerHits(u) ==
    {i \in 1..(Len(u) - Len(TrackMarker) - IdLen + 1) :
        /\ SubSeq(u, i, i + Len(TrackMarker) - 1) = TrackMarker
        /\ AllAlnum(u, i + Len(TrackMarker), i + Len(TrackMarker) + IdLen - 1)}

Min(S) == CHOOSE m \in S : \A n \in S : m <= n

\* re.search returns the leftmost match; group(1) is the identifier
SearchGroup(u) ==
    LET i == Min(MarkerHits(u))
    IN  SubSeq(u, i + Len(TrackMarker), i + Len(TrackMarker) + IdLen - 1)

extract_track_id(u) ==
    IF MatchBareId(u) THEN Ok(u)
    ELSE IF MarkerHits(u) # {} THEN Ok(SearchGroup(u))
    ELSE Raise("extract", "Invalid Spotify track ID or URL")

----------------------------------------------------------------------------
(* urllib.parse.quote(validated_url), with its default safe="/" *)

\* characters quote never encodes, plus the default safe character
QuoteSafe == Alnum \cup {"_", ".", "-", "~", "/"}

\* the two upper-case hex digits of the character's byte
HexByte(c) ==
    CASE c = ":"  -> <<"3", "A">>
      [] c = "?"  -> <<"3", "F">>
      [] c = "="  -> <<"3", "D">>
      [] c = "&"  -> <<"2", "6">>
      [] c = "#"  -> <<"2", "3">>
      [] c = "%"  -> <<"2", "5">>
      [] c = " "  -> <<"2", "0">>
      [] c = "\n" -> <<"0", "A">>

QuoteChar(c) == IF c \in QuoteSafe THEN <<c>> ELSE <<"%">> \o HexByte(c)

\* the characters lo..hi of s, each quoted, joined (by halves, which keeps
\* the evaluation shallow on long URLs)
RECURSIVE QuoteRange(_, _, _)
QuoteRange(s, lo, hi) ==
    IF lo > hi THEN <<>>
    ELSE IF lo = hi THEN QuoteChar(s[lo])
    ELSE LET mid == (lo + hi) \div 2
         IN  QuoteRange(s, lo, mid) \o QuoteRange(s, mid + 1, hi)

quote(s) == QuoteRange(s, 1, Len(s))

\* "https://spotmp3.app/api/check-direct-download?url="
CheckBase == <<"h", "t", "t", "p", "s", ":", "/", "/", "s", "p", "o", "t", "m",
               "p", "3", ".", "a", "p", "p", "/", "a", "p", "i", "/", "c", "h",
               "e", "c", "k", "-", "d", "i", "r", "e", "c", "t", "-", "d", "o",
               "w", "n", "l", "o", "a", "d", "?", "u", "r", "l", "=">>

\* "https://spotmp3.app/api/direct-download?url="
DirectBase == <<"h", "t", "t", "p", "s", ":", "/", "/", "s", "p", "o", "t", "m",
                "p", "3", ".", "a", "p", "p", "/", "a", "p", "i", "/", "d", "i",
                "r", "e", "c", "t", "-", "d", "o", "w", "n", "l", "o", "a", "d",
                "?", "u", "r", "l", "=">>

check_endpoint(u) == CheckBase \o quote(u)

\* mutant: the link carries the URL as it came
download_link_raw(u) == DirectBase \o u

download_link(u) == DirectBase \o quote(u)

----------------------------------------------------------------------------
(* f"{ms // 60000}:{(ms % 60000) // 1000:02d}" *)

DigitChars == <<"0", "1", "2", "3", "4", "5", "6", "7", "8", "9">>

\* format(n, "d") for n >= 0
RECURSIVE Str(_)
Str(n) == IF n < 10 THEN <<DigitChars[n + 1]>>
          ELSE Str(n \div 10) \o <<DigitChars[(n % 10) + 1]>>

\* format(n, "02d") for n >= 0: zero-padded to a width of at least two
Str02(n) == IF Len(Str(n)) < 2 THEN <<"0">> \o Str(n) ELSE Str(n)

\* mutant: the seconds are not padded
track_duration_unpadded(d) ==
    Str(d \div MsPerMinute) \o <<":">> \o Str((d % MsPerMinute) \div MsPerSecond)

\* get_track_metadata, "duration"
track_duration(d) ==
    Str(d \div MsPerMinute) \o <<":">> \o Str02((d % MsPerMinute) \div MsPerSecond)

\* search, "duration"
search_duration(d) ==
    Str(d \div MsPerMinute) \o <<":">> \o Str02((d % MsPerMinute) \div MsPerSecond)

----------------------------------------------------------------------------
(* Exceptions and the envelopes the handlers build *)

\* json.JSONDecodeError, raised by r.json() on a malformed body, is a ValueError
IsValueError(exc) == exc \in {"ValueError", "JSONDecodeError"}

\* fastapi.HTTPException(status_code, detail): the response it becomes
HTTPException(code, detail) == [code |-> code, body |-> detail]

ErrorDetail(m) ==
    [status |-> "error", message |-> m,
     API_OWNER |-> API_OWNER, API_UPDATES |-> API_UPDATES]

\* process_download, except httpx.HTTPError
DownloadNetworkError(m) == HTTPException(500, ErrorDetail(m))

\* process_download, except ValueError
DownloadValidationError(m) == HTTPException(400, ErrorDetail(m))

\* mutant: the catch-all handler answers without the attribution fields
DownloadUnexpectedErrorBare(m) ==
    HTTPException(500, [status |-> "error", message |-> m])

\* process_download, except Exception
DownloadUnexpectedError(m) == HTTPException(500, ErrorDetail(m))

\* the except chain of process_download, tried in the order written
process_download_except(exc, m) ==
    IF exc = "HTTPError" THEN DownloadNetworkError(m)
    ELSE IF IsValueError(exc) THEN DownloadValidationError(m)
    ELSE DownloadUnexpectedError(m)

\* search, "if not q"
SearchQueryRequired ==
    HTTPException(400,
        [status |-> "error", message |-> "Query required",
         example |-> "/sp/search?q=Song+Name",
         API_OWNER |-> API_OWNER, API_UPDATES |-> API_UPDATES])

\* search, "if not tracks": raised inside the try block, where the catch-all
\* handler of the same try takes it (see search_reply)
SearchNoTracks == HTTPException(404, ErrorDetail("No tracks found"))

\* search, except httpx.HTTPError
SearchNetworkError(m) == HTTPException(500, ErrorDetail(m))

\* search, except Exception
SearchUnexpectedError(m) == HTTPException(500, ErrorDetail(m))

\* the except chain of search: fastapi.HTTPException is an Exception and no
\* httpx.HTTPError, so the catch-all takes it too
search_except(exc, m) ==
    IF exc = "HTTPError" THEN SearchNetworkError(m)
    ELSE SearchUnexpectedError(m)

----------------------------------------------------------------------------
(* Outbound calls: what the environment may answer *)

\* httpx.HTTPError (transport failure or raise_for_status), a body that is
\* no JSON, a JSON body lacking a key the code indexes
Outcomes == {"ok", "http_error", "bad_json", "missing_key"}

\* get_spotify_token: httpx.HTTPError becomes ValueError, the rest propagates
token_raises(outcome) ==
    CASE outcome = "http_error"  -> [exc |-> "ValueError", msg |-> "Unable to authenticate with Spotify"]
      [] outcome = "bad_json"    -> [exc |-> "JSONDecodeError", msg |-> "str(e)"]
      [] outcome = "missing_key" -> [exc |-> "KeyError", msg |-> "str(e)"]

\* get_track_metadata: httpx.HTTPError becomes ValueError, the rest propagates
metadata_raises(outcome) ==
    CASE outcome = "http_error"  -> [exc |-> "ValueError", msg |-> "Unable to retrieve track data"]
      [] outcome = "bad_json"    -> [exc |-> "JSONDecodeError", msg |-> "str(e)"]
      [] outcome = "missing_key" -> [exc |-> "KeyError", msg |-> "str(e)"]

\* the delegate check inside process_download: nothing is converted; a JSON
\* body that is no object has no .get ("missing_key" stands for AttributeError)
check_raises(outcome) ==
    CASE outcome = "http_error"  -> [exc |-> "HTTPError", msg |-> "str(e)"]
      [] outcome = "bad_json"    -> [exc |-> "JSONDecodeError", msg |-> "str(e)"]
      [] outcome = "missing_key" -> [exc |-> "AttributeError", msg |-> "str(e)"]

\* the search call inside search: nothing is converted
search_raises(outcome) ==
    CASE outcome = "http_error"  -> [exc |-> "HTTPError", msg |-> "str(e)"]
      [] outcome = "bad_json"    -> [exc |-> "JSONDecodeError", msg |-> "str(e)"]
      [] outcome = "missing_key" -> [exc |-> "KeyError", msg |-> "str(e)"]

\* track payloads the catalog may return for an identifier
TrackPayloads(id) ==
    {[id |-> id, name |-> "Song",
      artists |-> <<[name |-> "Ann", id |-> "ar1"], [name |-> "Bob", id |-> "ar2"]>>,
      album |-> [name |-> "LP", id |-> "al1", release_date |-> "2020-01-01",
                 images |-> imgs],
      duration_ms |-> d,
      external_urls |-> [spotify |-> "https://open.spotify.com/track/x"],
      external_ids |-> IF d = 245000 THEN [isrc |-> "USX"] ELSE [upc |-> "1"]] :
        d \in {59999, 245000},
        imgs \in {<<>>, <<[url |-> "cover1"], [url |-> "cover2"]>>}}

\* dict.get(key, default)
PyGet(d, k, default) == IF k \in DOMAIN d THEN d[k] ELSE default

\* the dictionary get_track_metadata returns
track_metadata(t) ==
    [id |-> t.id,
     title |-> t.name,
     artists |-> [i \in DOMAIN t.artists |->
                    [name |-> t.artists[i].name, id |-> t.artists[i].id]],
     album |-> [name |-> t.album.name, id |-> t.album.id,
                release_date |-> t.album.release_date],
     duration |-> track_duration(t.duration_ms),
     cover |-> IF t.album.images # <<>> THEN t.album.images[1].url ELSE "None",
     url |-> t.external_urls.spotify,
     isrc |-> PyGet(t.external_ids, "isrc", "N/A")]

\* JSON objects the delegate's check endpoint may return; a value is written
\* as its JSON text
CheckResults ==
    {[cached |-> "true"],
     [cached |-> "true", progress |-> "100"],
     [cached |-> "false", progress |-> "40"],
     [cached |-> "false"],
     [progress |-> "40"],
     [cached |-> "null"],
     [cached |-> "0"],
     [cached |-> "1"],
     [cached |-> "\"\""],
     [cached |-> "\"false\""]}

\* Python truth value of a decoded JSON value
Truthy(v) == v \notin {"false", "null", "0", "0.0", "\"\"", "[]", "{}"}

\* process_download, "if check_result.get('cached')"
download_descriptor(result, u) ==
    IF Truthy(PyGet(result, "cached", "null"))
    THEN [link |-> download_link(u)]
    ELSE result

\* items the catalog's search may return
ItemSamples ==
    {[name |-> "Song", id |-> "t1",
      artists |-> <<[name |-> "Ann"], [name |-> "Bob"]>>,
      album |-> [name |-> "LP", release_date |-> "2020-01-01",
                 images |-> <<[url |-> "cover1"]>>],
      duration_ms |-> 245000,
      external_urls |-> [spotify |-> "u1"]],
     [name |-> "Tune", id |-> "t2",
      artists |-> <<[name |-> "Cy"]>>,
      album |-> [name |-> "EP", release_date |-> "1999", images |-> <<>>],
      duration_ms |-> 3605000,
      external_urls |-> [spotify |-> "u2"]]}

RECURSIVE SeqsUpTo(_, _)
SeqsUpTo(S, n) ==
    IF n = 0 THEN {<<>>}
    ELSE LET P == SeqsUpTo(S, n - 1)
         IN  P \cup {Append(p, s) : p \in P, s \in S}

\* ", ".join(names)
RECURSIVE Join(_)
Join(names) ==
    IF names = <<>> THEN <<>>
    ELSE IF Len(names) = 1 THEN names
    ELSE <<Head(names), ", ">> \o Join(Tail(names))

\* one element of search's response_data
search_item(t) ==
    [title |-> t.name,
     artist |-> Join([i \in DOMAIN t.artists |-> t.artists[i].name]),
     id |-> t.id,
     url |-> t.external_urls.spotify,
     album |-> t.album.name,
     release_date |-> t.album.release_date,
     duration |-> search_duration(t.duration_ms),
     cover |-> IF t.album.images # <<>> THEN t.album.images[1].url ELSE "None"]

----------------------------------------------------------------------------
(* Inputs *)

IdA == [i \in 1..IdLen |-> "A"]
IdB == [i \in 1..IdLen |-> "B"]

\* the pieces inputs are built from: the two literals of the regular
\* expressions, identifiers, a single alphanumeric, a non-alphanumeric, a newline
Segments == {UrlPrefix, TrackMarker, IdA, IdB, <<"a">>, <<"?">>, <<"\n">>}

RECURSIVE Concats(_)
Concats(n) ==
    IF n = 0 THEN {<<>>}
    ELSE LET P == Concats(n - 1)
         IN  P \cup {p \o s : p \in P, s \in Segments}

Inputs == Concats(MaxSegs)

\* the url arguments of the download requests
Urls == {u \in Inputs : \A i \in DOMAIN u : u[i] \notin {"B", "\n"}}

Queries == {<<>>, <<"a">>, <<"a", " ", "b">>}

NoResult == [ok |-> FALSE, val |-> <<>>, msg |-> "", step |-> "none"]
NoFailure == [step |-> "none", exc |-> "none"]
NoResponse == [code |-> 0, body |-> [status |-> "none"]]
NoTrack == [id |-> <<>>]
NoCheck == [none |-> "none"]

----------------------------------------------------------------------------
(* The server *)

Init ==
    /\ pc = "idle"
    /\ op = "none"
    /\ url = <<>>
    /\ q = <<>>
    /\ steps = <<>>
    /\ calls = <<>>
    /\ validated_url = <<>>
    /\ track_id = <<>>
    /\ track_data = NoTrack
    /\ check_result = NoCheck
    /\ failure = NoFailure
    /\ response = NoResponse
    /\ ms = 0
    /\ out = NoResult

\* a request is accepted when none is being served
Accepting == pc = "idle"

Fail(step, exc, r) ==
    /\ failure' = [step |-> step, exc |-> exc]
    /\ response' = r
    /\ pc' = "done"

\* process_download up to its first await
process_download(u) ==
    LET v == validate_spotify_url(u)
        t == extract_track_id(v.val)
    IN  /\ Accepting
        /\ op' = "download"
        /\ url' = u
        /\ q' = <<>>
        /\ track_data' = NoTrack
        /\ UNCHANGED <<check_result, ms, out>>
        /\ IF ~v.ok
           THEN /\ steps' = <<"validate">>
                /\ calls' = <<>>
                /\ validated_url' = <<>>
                /\ track_id' = <<>>
                /\ Fail("validate", "ValueError",
                        process_download_except("ValueError", v.msg))
           ELSE IF ~t.ok
           THEN /\ steps' = <<"validate", "extract">>
                /\ calls' = <<>>
                /\ validated_url' = v.val
                /\ track_id' = <<>>
                /\ Fail("extract", "ValueError",
                        process_download_except("ValueError", t.msg))
           ELSE /\ steps' = <<"validate", "extract", "token">>
                /\ calls' = <<[to |-> "token", arg |-> <<>>]>>
                /\ validated_url' = v.val
                /\ track_id' = t.val
                /\ failure' = NoFailure
                /\ response' = NoResponse
                /\ pc' = "await_token"

\* GET /sp/dl
download_get(u) == process_download(u)

\* POST /sp/dl
download_post(u) == process_download(u)

\* mutant: the query is not checked before the token is requested
QueryMissingNever(query) == FALSE

\* "not q"
QueryMissing(query) == query = <<>>

\* GET /sp/search up to its first await
search(query) ==
    /\ Accepting
    /\ op' = "search"
    /\ q' = query
    /\ url' = <<>>
    /\ validated_url' = <<>>
    /\ track_id' = <<>>
    /\ track_data' = NoTrack
    /\ UNCHANGED <<check_result, ms, out>>
    /\ IF QueryMissing(query)
       THEN /\ steps' = <<"query">>
            /\ calls' = <<>>
            /\ Fail("query", "HTTPException", SearchQueryRequired)
       ELSE /\ steps' = <<"query", "token">>
            /\ calls' = <<[to |-> "token", arg |-> <<>>]>>
            /\ failure' = NoFailure
            /\ response' = NoResponse
            /\ pc' = "await_token"

\* the handler the exception reaches, by the entry point being served
Handle(exc, m) ==
    IF op = "download" THEN process_download_except(exc, m)
    ELSE search_except(exc, m)

\* mutant: a failed token exchange is tried a second time
token_reply_retry(outcome) ==
    /\ pc = "await_token"
    /\ UNCHANGED <<op, url, q, validated_url, track_id, track_data,
                   check_result, ms, out>>
    /\ IF outcome # "ok" /\ Len(calls) < 2
       THEN /\ steps' = Append(steps, "token")
            /\ calls' = Append(calls, [to |-> "token", arg |-> <<>>])
            /\ UNCHANGED <<pc, failure, response>>
       ELSE IF outcome # "ok"
       THEN /\ Fail("token", token_raises(outcome).exc,
                    Handle(token_raises(outcome).exc, token_raises(outcome).msg))
            /\ UNCHANGED <<steps, calls>>
       ELSE IF op = "download"
       THEN /\ steps' = Append(steps, "track")
            /\ calls' = Append(calls, [to |-> "track", arg |-> track_id])
            /\ pc' = "await_track"
            /\ UNCHANGED <<failure, response>>
       ELSE /\ steps' = Append(steps, "search")
            /\ calls' = Append(calls, [to |-> "search", arg |-> q])
            /\ pc' = "await_search"
            /\ UNCHANGED <<failure, response>>

\* get_spotify_token returns or raises
token_reply(outcome) ==
    /\ pc = "await_token"
    /\ UNCHANGED <<op, url, q, validated_url, track_id, track_data,
                   check_result, ms, out>>
    /\ IF outcome # "ok"
       THEN /\ Fail("token", token_raises(outcome).exc,
                    Handle(token_raises(outcome).exc, token_raises(outcome).msg))
            /\ UNCHANGED <<steps, calls>>
       ELSE IF op = "download"
       THEN /\ steps' = Append(steps, "track")
            /\ calls' = Append(calls, [to |-> "track", arg |-> track_id])
            /\ pc' = "await_track"
            /\ UNCHANGED <<failure, response>>
       ELSE /\ steps' = Append(steps, "search")
            /\ calls' = Append(calls, [to |-> "search", arg |-> q])
            /\ pc' = "await_search"
            /\ UNCHANGED <<failure, response>>

\* get_track_metadata's GET returns or raises; then the delegate is asked
track_reply(outcome, payload) ==
    /\ pc = "await_track"
    /\ UNCHANGED <<op, url, q, validated_url, track_id, check_result, ms, out>>
    /\ IF outcome # "ok"
       THEN /\ Fail("track", metadata_raises(outcome).exc,
                    process_download_except(metadata_raises(outcome).exc,
                                            metadata_raises(outcome).msg))
            /\ UNCHANGED <<steps, calls, track_data>>
       ELSE /\ track_data' = track_metadata(payload)
            /\ steps' = Append(steps, "check")
            /\ calls' = Append(calls, [to |-> "check",
                                       arg |-> check_endpoint(validated_url)])
            /\ pc' = "await_check"
            /\ UNCHANGED <<failure, response>>

\* the delegate's check returns or raises; the success envelope is assembled
check_reply(outcome, result) ==
    /\ pc = "await_check"
    /\ UNCHANGED <<op, url, q, validated_url, track_id, track_data, steps,
                   calls, ms, out>>
    /\ IF outcome # "ok"
       THEN /\ Fail("check", check_raises(outcome).exc,
                    process_download_except(check_raises(outcome).exc,
                                            check_raises(outcome).msg))
            /\ UNCHANGED check_result
       ELSE /\ check_result' = result
            /\ response' =
                [code |-> 200,
                 body |-> [status |-> "success",
                           track |-> track_data,
                           download |-> download_descriptor(result,
                                                            validated_url),
                           API_OWNER |-> API_OWNER,
                           API_UPDATES |-> API_UPDATES]]
            /\ pc' = "done"
            /\ UNCHANGED failure

\* the catalog's search returns or raises
search_reply(outcome, tracks) ==
    /\ pc = "await_search"
    /\ UNCHANGED <<op, url, q, validated_url, track_id, track_data,
                   check_result, steps, calls, ms, out>>
    /\ IF outcome # "ok"
       THEN Fail("search", search_raises(outcome).exc,
                 search_except(search_raises(outcome).exc,
                               search_raises(outcome).msg))
       ELSE IF tracks = <<>>
       THEN \* raise HTTPException(404) inside the try block
            Fail("no_tracks", "HTTPException",
                 search_except("HTTPException", "str(e)"))
       ELSE /\ response' =
                [code |-> 200,
                 body |-> [status |-> "success",
                           results |-> [i \in DOMAIN tracks |->
                                           search_item(tracks[i])],
                           API_OWNER |-> API_OWNER,
                           API_UPDATES |-> API_UPDATES]]
            /\ pc' = "done"
            /\ UNCHANGED failure

\* the response is sent; nothing of the request is kept
send_response ==
    /\ pc = "done"
    /\ pc' = "idle"
    /\ op' = "none"
    /\ url' = <<>>
    /\ q' = <<>>
    /\ steps' = <<>>
    /\ calls' = <<>>
    /\ validated_url' = <<>>
    /\ track_id' = <<>>
    /\ track_data' = NoTrack
    /\ check_result' = NoCheck
    /\ failure' = NoFailure
    /\ response' = NoResponse
    /\ UNCHANGED <<ms, out>>

Next ==
    \/ \E u \in Urls : download_get(u)
    \/ \E u \in Urls : download_post(u)
    \/ \E query \in Queries : search(query)
    \/ \E o \in Outcomes : token_reply(o)
    \/ \E o \in Outcomes, p \in TrackPayloads(track_id) : track_reply(o, p)
    \/ \E o \in Outcomes, r \in CheckResults : check_reply(o, r)
    \/ \E o \in Outcomes, ts \in SeqsUpTo(ItemSamples, MaxItems) : search_reply(o, ts)
    \/ send_response

Spec == Init /\ [][Next]_vars

----------------------------------------------------------------------------
(* The two validators on their own: every input, not only what the download *)
(* flow hands them                                                          *)

Idle ==
    /\ op = "none"
    /\ q = <<>>
    /\ steps = <<>>
    /\ calls = <<>>
    /\ validated_url = <<>>
    /\ track_data = NoTrack
    /\ check_result = NoCheck
    /\ failure = NoFailure
    /\ response = NoResponse

InitResolve ==
    /\ Idle
    /\ pc = "arg"
    /\ url \in Inputs
    /\ track_id = <<>>
    /\ ms = 0
    /\ out = NoResult

call_validate ==
    /\ pc = "arg"
    /\ out' = validate_spotify_url(url)
    /\ pc' = "validated"
    /\ UNCHANGED <<op, url, q, steps, calls, validated_url, track_id,
                   track_data, check_result, failure, response, ms>>

call_extract ==
    /\ pc = "arg"
    /\ out' = extract_track_id(url)
    /\ pc' = "extracted"
    /\ UNCHANGED <<op, url, q, steps, calls, validated_url, track_id,
                   track_data, check_result, failure, response, ms>>

\* extract_track_id applied to its own result; track_id keeps the first one
call_extract_again ==
    /\ pc = "extracted"
    /\ out.ok
    /\ track_id' = out.val
    /\ out' = extract_track_id(out.val)
    /\ pc' = "extracted_again"
    /\ UNCHANGED <<op, url, q, steps, calls, validated_url,
                   track_data, check_result, failure, response, ms>>

NextResolve == call_validate \/ call_extract \/ call_extract_again

SpecResolve == InitResolve /\ [][NextResolve]_vars

----------------------------------------------------------------------------
(* The duration formatting on its own *)

DurationInputs ==
    {k * 7001 : k \in 0..MaxDurK}
        \cup {999, 1000, 9999, 59999, 60000, 245000, 599999, 600000,
              3599999, 3600000, 36000000}

InitDuration ==
    /\ Idle
    /\ pc = "ms"
    /\ url = <<>>
    /\ track_id = <<>>
    /\ ms \in DurationInputs
    /\ out = NoResult

format_track ==
    /\ pc = "ms"
    /\ out' = Ok(track_duration(ms))
    /\ pc' = "track_formatted"
    /\ UNCHANGED <<op, url, q, steps, calls, validated_url, track_id,
                   track_data, check_result, failure, response, ms>>

format_search ==
    /\ pc = "ms"
    /\ out' = Ok(search_duration(ms))
    /\ pc' = "search_formatted"
    /\ UNCHANGED <<op, url, q, steps, calls, validated_url, track_id,
                   track_data, check_result, failure, response, ms>>

NextDuration == format_track \/ format_search

SpecDuration == InitDuration /\ [][NextDuration]_vars

----------------------------------------------------------------------------
(* Properties *)

Done == pc = "done"
IsError == Done /\ response.body.status = "error"
IsSuccess == Done /\ response.body.status = "success"

\* the error kind of section 7 a failure belongs to, by the step that failed
\* and what it raised there
FailureKind ==
    CASE failure.step = "validate"  -> "InvalidUrl"
      [] failure.step = "extract"   -> "InvalidIdentifier"
      [] failure.step = "query"     -> "EmptyQuery"
      [] failure.step = "no_tracks" -> "NoResults"
      [] failure.step = "token" ->
            IF failure.exc = "ValueError" THEN "AuthFailure" ELSE "Unexpected"
      [] failure.step = "track"     -> "MetadataUnavailable"
      [] failure.step = "check" ->
            IF failure.exc = "HTTPError" THEN "DelegateUnavailable" ELSE "Unexpected"
      [] failure.step = "search" ->
            IF failure.exc = "HTTPError" THEN "SearchUnavailable" ELSE "Unexpected"
      [] OTHER -> "none"

ValidationKinds == {"InvalidUrl", "InvalidIdentifier", "EmptyQuery"}

\* C1: a search with a non-empty query whose token exchange and search call
\* succeed and whose item list is empty answers with an error envelope of
\* status 404, never success and never another status.
C1_NoResultsIs404 ==
    (Done /\ op = "search" /\ q # <<>> /\ failure.step = "no_tracks")
        => (response.code = 404 /\ response.body.status = "error")

\* C2: the status of an error envelope is 400 exactly for the validation
\* kinds; auth, metadata, delegate, search and unexpected failures give 500.
C2_StatusByKind ==
    IsError =>
        /\ (response.code = 400) <=> (FailureKind \in ValidationKinds)
        /\ FailureKind \in {"AuthFailure", "MetadataUnavailable",
                            "DelegateUnavailable", "SearchUnavailable",
                            "Unexpected"} => response.code = 500

\* C3: every response of download and search, success or error, carries a
\* non-empty API_OWNER and API_UPDATES and a status that is "success" or
\* "error".
C3_Attribution ==
    Done =>
        /\ {"status", "API_OWNER", "API_UPDATES"} \subseteq DOMAIN response.body
        /\ response.body.API_OWNER # ""
        /\ response.body.API_UPDATES # ""
        /\ response.body.status \in {"success", "error"}

\* a download that failed with an exception only the catch-all handler takes
C3_Witness ==
    Done /\ op = "download" /\ failure.exc \in {"KeyError", "AttributeError"}

\* the character a percent escape stands for
Unescape(hex) ==
    CHOOSE x \in {":", "?", "=", "&", "#", "%", " ", "\n"} : HexByte(x) = hex

\* s[lo..hi], which starts and ends at a character or a whole %XX escape,
\* with the escapes turned back into their characters (split by halves at a
\* place that cuts no escape)
RECURSIVE DecodeRange(_, _, _)
DecodeRange(s, lo, hi) ==
    IF lo > hi THEN <<>>
    ELSE IF s[lo] = "%" /\ hi <= lo + 2
    THEN IF hi = lo + 2 THEN <<Unescape(SubSeq(s, lo + 1, hi))>> ELSE <<"?">>
    ELSE IF lo = hi THEN <<s[lo]>>
    ELSE LET mid == (lo + hi) \div 2
             cut == IF s[mid] = "%" THEN mid
                    ELSE IF mid > lo /\ s[mid - 1] = "%" THEN mid - 1
                    ELSE mid + 1
             m == IF cut = lo THEN lo + 3 ELSE cut
         IN  DecodeRange(s, lo, m - 1) \o DecodeRange(s, m, hi)

\* %XX sequences turned back into the characters they stand for
PercentDecode(s) == DecodeRange(s, 1, Len(s))

\* nothing but unreserved characters, "/" and percent escapes
IsQueryValue(s) == \A i \in DOMAIN s : s[i] \in QuoteSafe \cup {"%"}

\* the query value the check endpoint was called with
SentToCheck ==
    LET c == calls[Len(calls)]
    IN  SubSeq(c.arg, Len(CheckBase) + 1, Len(c.arg))

\* C4: in a successful download the descriptor is {link: direct-download
\* endpoint + the percent-encoded URL, the same encoding the check endpoint
\* received} when the delegate's cached field is truthy, and the delegate's
\* response verbatim otherwise.
C4_Descriptor ==
    (IsSuccess /\ op = "download") =>
        /\ calls[Len(calls)].to = "check"
        /\ StartsWith(calls[Len(calls)].arg, CheckBase)
        /\ IsQueryValue(SentToCheck)
        /\ PercentDecode(SentToCheck) = url
        /\ IF "cached" \in DOMAIN check_result /\ Truthy(check_result.cached)
           THEN response.body.download = [link |-> DirectBase \o SentToCheck]
           ELSE response.body.download = check_result

\* a cached download of a URL with a character that needs a percent escape
\* beyond the scheme's colon
C4_Witness ==
    /\ IsSuccess /\ op = "download"
    /\ check_result = [cached |-> "true"]
    /\ \E i \in DOMAIN url : url[i] = "?"

\* the prefix followed by a whole identifier
HasIdAfterPrefix(u) ==
    /\ StartsWith(u, UrlPrefix)
    /\ Len(u) >= Len(UrlPrefix) + 22
    /\ \A i \in 1..22 : u[Len(UrlPrefix) + i] \in Alnum

C6_EmptyQueryNoCall ==
    (op = "search" /\ q = <<>>) =>
        /\ calls = <<>>
        /\ Done
        /\ response.code = 400
        /\ response.body.status = "error"
        /\ FailureKind = "EmptyQuery"

C6_Witness == op = "search" /\ q = <<>> /\ Done /\ response.code = 400

\* a 22-character alphanumeric string
IsTrackIdentifier(s) == Len(s) = 22 /\ \A i \in 1..22 : s[i] \in Alnum

\* C7: resolve returns an input of exactly 22 alphanumerics unchanged, else
\* the first 22-alphanumeric group following "spotify.com/track/", else fails
\* with InvalidIdentifier; every value it returns is a 22-character
\* alphanumeric string, and resolving a result again returns it.
C7_ResolveContract ==
    /\ (pc = "extracted") =>
          /\ IF IsTrackIdentifier(url) THEN out.ok /\ out.val = url
             ELSE IF MarkerHits(url) # {}
             THEN out.ok /\ out.val = SearchGroup(url)
             ELSE ~out.ok /\ out.step = "extract"
          /\ out.ok => IsTrackIdentifier(out.val)
    /\ (pc = "extracted_again") => (out.ok /\ out.val = track_id)

\* the digits of a decimal numeral, read back as a number
RECURSIVE ParseNat(_)
ParseNat(s) ==
    IF s = <<>> THEN 0
    ELSE 10 * ParseNat(SubSeq(s, 1, Len(s) - 1))
            + (CHOOSE d \in 0..9 : DigitChars[d + 1] = s[Len(s)])

IsNumeral(s) == s # <<>> /\ \A i \in DOMAIN s : s[i] \in Digit

\* C8: the duration of ms >= 0 is "M:SS": M = ms div 60000 without padding,
\* SS = (ms mod 60000) div 1000 in exactly two digits, 00..59; 245000 gives
\* "4:05"; the metadata fetcher and the search adapter format alike.
C8_DurationFormat ==
    (pc \in {"track_formatted", "search_formatted"}) =>
        LET s == out.val
            n == Len(s)
            mins == SubSeq(s, 1, n - 3)
            secs == SubSeq(s, n - 1, n)
        IN  /\ n >= 4
            /\ s[n - 2] = ":"
            /\ IsNumeral(mins) /\ IsNumeral(secs)
            /\ (Len(mins) > 1 => mins[1] # "0")
            /\ ParseNat(mins) = ms \div 60000
            /\ ParseNat(secs) = (ms % 60000) \div 1000
            /\ ParseNat(secs) \in 0..59
            /\ (ms = 245000 => s = <<"4", ":", "0", "5">>)
            /\ s = (IF pc = "track_formatted" THEN search_duration(ms)
                    ELSE track_duration(ms))

\* the fetcher formatted a duration whose seconds need their padding
C8_Witness == pc = "track_formatted" /\ ms = 245000 /\ out.ok

DownloadSteps == <<"validate", "extract", "token", "track", "check">>

\* C9: a download performs validate, extract, token, track, check in this
\* order, each at most once and only after the earlier ones succeeded; a
\* failed validation or extraction issues no outbound call; a failure ends
\* the request with an error envelope at the step that failed; a success
\* envelope, with track and download, follows all five steps.
C9_StepOrder ==
    (op = "download") =>
        /\ Len(steps) <= Len(DownloadSteps)
        /\ steps = SubSeq(DownloadSteps, 1, Len(steps))
        /\ Len(calls) = (IF Len(steps) > 2 THEN Len(steps) - 2 ELSE 0)
        /\ \A i \in DOMAIN calls : calls[i].to = steps[i + 2]
        /\ failure.step \in {"validate", "extract"} => calls = <<>>
        /\ failure.step # "none" =>
              /\ IsError
              /\ failure.step = steps[Len(steps)]
        /\ IsSuccess =>
              /\ steps = DownloadSteps
              /\ failure.step = "none"
              /\ {"track", "download"} \subseteq DOMAIN response.body
              /\ response.body.track = track_data
        /\ Done => (IsError /\ failure.step # "none") \/ IsSuccess

\* a request that failed at the token exchange, its only outbound call
C9_Witness ==
    /\ op = "download" /\ IsError
    /\ failure.step = "token"
    /\ Len(calls) = 1

\* C10: the identifier the metadata is fetched for is the 22 characters that
\* follow the prefix in the validated URL, the URL the delegate is asked about.
C10_SameTrack ==
    \A i \in DOMAIN calls :
        calls[i].to = "track" =>
            /\ Len(validated_url) >= Len(UrlPrefix) + 22
            /\ calls[i].arg = SubSeq(validated_url, Len(UrlPrefix) + 1,
                                     Len(UrlPrefix) + 22)

====
